---- MODULE Spec2Model ----
(***************************************************************************)
(* A model of the contract-validated generation-and-repair loop of         *)
(* ms-llm-testing:                                                         *)
(*   - 3-generate-llm-test/generate_tests.py: CompatibleTestGenerator      *)
(*     (validate_test_case, fix_common_issues, process_endpoint,           *)
(*     process_endpoints);                                                 *)
(*   - 4-auto-test-generator/springboot_test_generator.py: Generator       *)
(*     (ask, generate, run) and the transforms of its pipeline;            *)
(*   - 4-auto-test-generator/test_generator.py: SpringBootTestGenerator    *)
(*     (generate_all_tests).                                               *)
(*                                                                         *)
(* A text is a sequence of lines (joined by "\n" in the program).  The     *)
(* regular expressions of the program are modelled by their match tables   *)
(* on the lines below; on every text built from these lines the matches    *)
(* of a pattern on the joined text are the matches on its lines, in order  *)
(* (no pattern matches across a line break of these lines).                *)
(***************************************************************************)
EXTENDS Integers, Sequences, FiniteSets, TLC

VARIABLES
    \* CompatibleTestGenerator.process_endpoints / process_endpoint
    pc,                 \* position of the run: "next", "generate", "validate", "done"
    endpoint,           \* index in the endpoints list of the endpoint in progress
    attempt,            \* loop variable of `for attempt in range(self.max_retries)`
    test_code,          \* local test_code: <<>> is None, <<t>> is the text t
    validation_results, \* local validation_results: <<>> is None, <<r>> a result
    test_files,         \* per endpoint, the texts written by save_test_file, in order
    debug_files,        \* per endpoint, the texts written to debug_failed_tests
    outcome,            \* per endpoint: "pending", "saved", "quarantined", "failed"
    previous_errors,    \* local previous_errors: <<>> is None, <<e>> the joined errors
    oracle_calls,       \* per endpoint, the attempt index of every generate_test_case call
    invalid_texts,      \* attempts of this endpoint whose fixed text breaks a rule
    last_event,         \* what the last step printed / did
    \* validate_test_case applied to an arbitrary text
    v_pc, v_text, v_result,
    \* Generator.run
    g_pc, g_units, g_i, g_written, g_failed,
    \* Generator.generate and its transforms
    a_pc,               \* "idle", "transform", "pipeline", "written"
    a_text,             \* the local code: the artifact text
    a_facts,            \* what generate found in the sources
    a_applied,          \* the transforms applied so far, in order, with their fact
    a_orig,             \* the text before the first transform
    a_prev,             \* the text before the last transform
    a_dest,             \* the test file: <<>> not written, <<t>> holds the text t
    \* SpringBootTestGenerator.generate_all_tests
    t_pc, t_files, t_i, t_oracle, t_saved

vars == <<pc, endpoint, attempt, test_code, validation_results, test_files,
          debug_files, outcome, previous_errors, oracle_calls, invalid_texts,
          last_event, v_pc, v_text, v_result, g_pc, g_units, g_i, g_written, g_failed,
          a_pc, a_text, a_facts, a_applied, a_orig, a_prev, a_dest, t_pc, t_files, t_i, t_oracle, t_saved>>

procVars == <<pc, endpoint, attempt, test_code, validation_results, test_files,
              debug_files, outcome, previous_errors, oracle_calls, invalid_texts,
              last_event>>
valVars  == <<v_pc, v_text, v_result>>
genVars  == <<g_pc, g_units, g_i, g_written, g_failed>>
artVars  == <<a_pc, a_text, a_facts, a_applied, a_orig, a_prev, a_dest>>
allVars  == <<t_pc, t_files, t_i, t_oracle, t_saved>>

----------------------------------------------------------------------------
\* Bounds of the model.
MaxLen       == 2   \* lines of a text given to validate_test_case
MaxAnswerLen == 1   \* lines of an Oracle answer (the example class apart)
NumEndpoints == 2   \* endpoints in the endpoints file
NumUnits     == 3   \* source files under src/main/java
MaxArtLen    == 2   \* lines of a text given to a transform on its own
MaxOracleLen == 2   \* lines of the code that ask returns to generate
NumFiles     == 3   \* Java files found by analyze_project_structure

\* self.max_retries = 3
max_retries == 3
\* the [:3] of problematic_lines
SnippetCap == 3

----------------------------------------------------------------------------
\* Lines of generated Java.
L_SpringBootTest == "@SpringBootTest"
L_MockMvc        == "@Autowired private MockMvc mockMvc;"
L_MockBean       == "@MockBean private OrderService orderService;"
L_NoArgOrder     == "Order order = new Order();"
L_SetId          == "order.setId(1L);"
L_WhenFind       == "when(orderService.findOrderById(1L)).thenReturn(Optional.of(order));"
L_ArgOrder1      == "Order order = new Order(1L, 100.0);"
L_ArgOrder2      == "Order order = new Order(2L, 50.0);"
L_WhenGet        == "when(orderService.getOrderById(1L)).thenReturn(Optional.of(order));"
L_Throw          == "throw new CustomerNotFoundException();"
L_Revenue        == "double r = orderService.calculateTotalRevenue();"

Lines == {L_SpringBootTest, L_MockMvc, L_MockBean, L_NoArgOrder, L_SetId, L_WhenFind,
          L_ArgOrder1, L_ArgOrder2, L_WhenGet, L_Throw, L_Revenue}

\* The example test class that build_prompt shows as correct (its non-blank
\* lines, without indentation).
ExampleTest ==
    << "@SpringBootTest",
       "@AutoConfigureMockMvc",
       "public class ExampleTest {",
       "@Autowired private MockMvc mockMvc;",
       "@MockBean private OrderService orderService;",
       "@Test",
       "void shouldReturnOrder() throws Exception {",
       "// CORRECT Order creation",
       "Order order = new Order();",
       "order.setId(1L);",
       "order.setCustomerName(\"test\");",
       "order.setAmount(100.0);",
       "when(orderService.findOrderById(1L)).thenReturn(Optional.of(order));",
       "mockMvc.perform(get(\"/orders/1\"))",
       ".andExpect(status().isOk())",
       ".andExpect(jsonPath(\"$.id\").value(1));",
       "}",
       "}" >>

BoundedTexts(n) == UNION {[1..k -> Lines] : k \in 0..n}
\* the texts given to validate_test_case: every text of at most MaxLen lines,
\* and the example class
Texts == BoundedTexts(MaxLen) \cup {ExampleTest}
\* the answers of the Oracle
Answers == BoundedTexts(MaxAnswerLen) \cup {ExampleTest}

----------------------------------------------------------------------------
\* Helpers on sequences.
RECURSIVE Flatten(_)
Flatten(ss) == IF ss = <<>> THEN <<>> ELSE Head(ss) \o Flatten(Tail(ss))

Range(s) == {s[i] : i \in 1..Len(s)}

\* list(dict.fromkeys(s)): the distinct entries of s in first-occurrence order
RECURSIVE DictFromKeysFrom(_, _)
DictFromKeysFrom(s, seen) ==
    IF s = <<>> THEN seen
    ELSE DictFromKeysFrom(Tail(s), IF Head(s) \in Range(seen) THEN seen
                                   ELSE Append(seen, Head(s)))

DictFromKeys(s) == DictFromKeysFrom(s, <<>>)

NoRepeats(s) == \A i, j \in 1..Len(s) : s[i] = s[j] => i = j

----------------------------------------------------------------------------
\* The rule set of validate_test_case.
requirements ==
    << "Missing @SpringBootTest annotation",            \* @SpringBootTest
       "Missing MockMvc autowired field",               \* @Autowired\s+private\s+MockMvc
       "Missing OrderService mock",                     \* @MockBean\s+private\s+OrderService
       "Order not created with no-arg constructor",     \* Order\s+\w+\s*=\s*new\s+Order\(\s*\)
       "Missing property setters",                      \* \.set[A-Z]\w*\(
       "Incorrect service method mocking" >>            \* when\(orderService\.(findOrderById|...)\(

prohibitions ==
    << "Used Order constructor with arguments",         \* new\s+Order\s*\([^)]+\)
       "Used Order constructor (any form)",             \* Order\s*\([^)]*\)
       "Used forbidden exception",                      \* CustomerNotFoundException
       "Used wrong service method names" >>             \* orderService\.(getOrderById|...)

\* The lines on which required pattern p has a match.
RequirementLines ==
    << {"@SpringBootTest"},
       {"@Autowired private MockMvc mockMvc;"},
       {"@MockBean private OrderService orderService;"},
       {"Order order = new Order();"},
       {"order.setId(1L);", "order.setCustomerName(\"test\");", "order.setAmount(100.0);"},
       {"when(orderService.findOrderById(1L)).thenReturn(Optional.of(order));"} >>

\* re.finditer of forbidden pattern p on one line: the matched substrings, in order.
LineMatches(p, ln) ==
    CASE p = 1 /\ ln = L_ArgOrder1 -> << "new Order(1L, 100.0)" >>
      [] p = 1 /\ ln = L_ArgOrder2 -> << "new Order(2L, 50.0)" >>
      [] p = 2 /\ ln = L_ArgOrder1 -> << "Order(1L, 100.0)" >>
      [] p = 2 /\ ln = L_ArgOrder2 -> << "Order(2L, 50.0)" >>
      [] p = 2 /\ ln = L_NoArgOrder -> << "Order()" >>
      [] p = 2 /\ ln = "void shouldReturnOrder() throws Exception {" -> << "Order()" >>
      [] p = 3 /\ ln = L_Throw -> << "CustomerNotFoundException" >>
      [] p = 4 /\ ln = L_WhenGet -> << "orderService.getOrderById" >>
      [] p = 4 /\ ln = L_Revenue -> << "orderService.calculateTotalRevenue" >>
      [] OTHER -> << >>

\* re.search(pattern, test_code) for required pattern p
re_search(p, text) == \E i \in 1..Len(text) : text[i] \in RequirementLines[p]

\* [m.group(0) for m in re.finditer(pattern, test_code)] for forbidden pattern p
re_finditer(p, text) == Flatten([i \in 1..Len(text) |-> LineMatches(p, text[i])])

----------------------------------------------------------------------------
\* validate_test_case.

\* for pattern, message in requirements: if not re.search(...): errors.append("Missing: ...")
RECURSIVE check_requirements(_, _)
check_requirements(code, p) ==
    IF p > Len(requirements) THEN << >>
    ELSE (IF re_search(p, code) THEN << >> ELSE << <<"Missing", requirements[p]>> >>)
         \o check_requirements(code, p + 1)

\* for pattern, message in prohibitions: for match in matches: errors.append("Prohibited: ...")
RECURSIVE prohibited_errors(_, _)
prohibited_errors(code, p) ==
    IF p > Len(prohibitions) THEN << >>
    ELSE [i \in 1..Len(re_finditer(p, code)) |-> <<"Prohibited", prohibitions[p]>>]
         \o prohibited_errors(code, p + 1)

\* ... problematic_lines.append(match.group(0))
RECURSIVE prohibited_matches(_, _)
prohibited_matches(code, p) ==
    IF p > Len(prohibitions) THEN << >>
    ELSE re_finditer(p, code) \o prohibited_matches(code, p + 1)

\* errors, as the two loops leave it
collected_errors(code) == check_requirements(code, 1) \o prohibited_errors(code, 1)

\* results["is_valid"]: set to False with every error appended
is_valid_flag(code) == collected_errors(code) = << >>

\* The dict `results` when control reaches the slice of problematic_lines:
\* both loops have run and errors has been deduplicated; problematic_lines is
\* still the list of all matches.
results_before_slice(code) ==
    [ is_valid          |-> is_valid_flag(code),
      errors            |-> DictFromKeys(collected_errors(code)),
      problematic_lines |-> prohibited_matches(code, 1) ]

\* The interpreters the script may run under.  Subscripting a dict with a
\* slice raises on each: the slice is unhashable before Python 3.12
\* (TypeError) and a missing key from 3.12 on (KeyError).
Interpreters == {"py<3.12", "py>=3.12"}

\* dict.fromkeys(keys)[:stop]
dict_getitem_slice(keys, stop, py) ==
    [ raised |-> TRUE, exc |-> IF py = "py<3.12" THEN "TypeError" ELSE "KeyError" ]

\* The outcome of a call of validate_test_case: [raised |-> FALSE, value |-> results]
\* when it returns, [raised |-> TRUE, exc |-> type] when it raises.
validate_test_case(code, py) ==
    LET results == results_before_slice(code)
        sliced  == dict_getitem_slice(DictFromKeys(results.problematic_lines), SnippetCap, py)
    IN  IF sliced.raised
        THEN sliced
        ELSE [ raised |-> FALSE,
               value  |-> [results EXCEPT !.problematic_lines = sliced.value] ]

----------------------------------------------------------------------------
\* fix_common_issues.

\* re.sub(r"new\s+Order\s*\([^)]*\)", "new Order()", line)
sub_constructor(ln) ==
    IF ln \in {L_ArgOrder1, L_ArgOrder2} THEN L_NoArgOrder ELSE ln

\* re.sub(r"orderService\.getOrderById\(", "orderService.findOrderById(", line)
sub_service_method(ln) ==
    IF ln = L_WhenGet THEN L_WhenFind ELSE ln

fix_common_issues(code) ==
    [i \in 1..Len(code) |-> sub_service_method(sub_constructor(code[i]))]

----------------------------------------------------------------------------
\* save_test_file: the file content for a text (the package declaration is
\* put in front unless the text starts with one).
PackageLine == "package com.example.orderservice;"

file_content(code) ==
    IF Len(code) > 0 /\ code[1] = PackageLine
    THEN code
    ELSE << PackageLine, "" >> \o code

----------------------------------------------------------------------------
\* CompatibleTestGenerator.process_endpoints and process_endpoint.

Endpoints == 1..NumEndpoints

\* The exceptions generate_test_case lets out: requests.post failing and
\* raise_for_status (transport, authentication), a malformed answer.
OracleErrors == {"RequestException"}

\* Variants of the exception handling, each a plausible slip.
\* (a) the handler retries without the loop advancing the attempt index
HandleException_NoAdvance(exc) ==
    /\ last_event' = exc
    /\ pc' = "generate"
    /\ UNCHANGED <<attempt, outcome, endpoint>>

\* (b) every exception is raised again at once, whatever the attempt
HandleException_AlwaysRaise(exc) ==
    /\ last_event' = exc
    /\ outcome' = [outcome EXCEPT ![endpoint] = "failed"]
    /\ endpoint' = endpoint + 1
    /\ pc' = "next"
    /\ attempt' = attempt

\* (c) process_endpoints has no try/except: the exception raised on the last
\* attempt ends the run
HandleException_Uncaught(exc) ==
    /\ last_event' = exc
    /\ IF attempt = max_retries - 1
       THEN /\ outcome' = [outcome EXCEPT ![endpoint] = "failed"]
            /\ pc' = "done"
            /\ UNCHANGED <<attempt, endpoint>>
       ELSE /\ attempt' = attempt + 1
            /\ pc' = "generate"
            /\ UNCHANGED <<outcome, endpoint>>

\* `except Exception as e:` of process_endpoint: the failure is printed; on the
\* last attempt it is raised again and caught by process_endpoints, which
\* prints it and continues with the next endpoint; on an earlier attempt the
\* loop goes on to the next attempt.
HandleException(exc) ==
    /\ last_event' = exc
    /\ IF attempt = max_retries - 1
       THEN /\ outcome' = [outcome EXCEPT ![endpoint] = "failed"]
            /\ endpoint' = endpoint + 1
            /\ pc' = "next"
            /\ attempt' = attempt
       ELSE /\ attempt' = attempt + 1
            /\ pc' = "generate"
            /\ UNCHANGED <<outcome, endpoint>>

\* process_endpoint returns or raises: process_endpoints goes to the next endpoint.
EndpointEnds(result, event) ==
    /\ outcome' = [outcome EXCEPT ![endpoint] = result]
    /\ endpoint' = endpoint + 1
    /\ pc' = "next"
    /\ last_event' = event
    /\ attempt' = attempt

\* `for endpoint in endpoints:` takes the next endpoint and process_endpoint
\* starts: test_code = None, validation_results = None, attempt = 0.
StartEndpoint ==
    /\ pc = "next"
    /\ endpoint \in Endpoints
    /\ pc' = "generate"
    /\ attempt' = 0
    /\ test_code' = << >>
    /\ validation_results' = << >>
    /\ previous_errors' = << >>
    /\ invalid_texts' = 0
    /\ last_event' = "processing"
    /\ UNCHANGED <<endpoint, test_files, debug_files, outcome, oracle_calls>>
    /\ UNCHANGED <<valVars, genVars, artVars, allVars>>

\* The endpoints list is exhausted: process_endpoints returns.
RunEnds ==
    /\ pc = "next"
    /\ endpoint \notin Endpoints
    /\ pc' = "done"
    /\ last_event' = "finished"
    /\ UNCHANGED <<endpoint, attempt, test_code, validation_results, previous_errors,
                   test_files, debug_files, outcome, oracle_calls, invalid_texts>>
    /\ UNCHANGED <<valVars, genVars, artVars, allVars>>

\* previous_errors = "\n".join(validation_results["errors"]) if validation_results else None
\* test_code = self.generate_test_case(endpoint, previous_errors)
\* The Oracle answers with a text, or the call raises.
GenerateTestCase ==
    /\ pc = "generate"
    /\ previous_errors' = IF validation_results = << >> THEN << >>
                          ELSE << validation_results[1].errors >>
    /\ oracle_calls' = [oracle_calls EXCEPT ![endpoint] = Append(@, attempt)]
    /\ \/ \E answer \in Answers :
            /\ test_code' = << answer >>
            /\ pc' = "validate"
            /\ last_event' = "generated"
            /\ UNCHANGED <<attempt, endpoint, outcome>>
       \/ \E exc \in OracleErrors :
            /\ HandleException(exc)
            /\ UNCHANGED test_code
    /\ UNCHANGED <<validation_results, test_files, debug_files, invalid_texts>>
    /\ UNCHANGED <<valVars, genVars, artVars, allVars>>

\* save_test_file is called in an attempt only under
\* `if validation_results["is_valid"]:`, which is reached only when
\* validate_test_case has returned.
save_test_file_called_unguarded(r) == TRUE

save_test_file_called(r) == ~r.raised /\ r.value.is_valid

\* The rest of the loop body: fix_common_issues, validate_test_case, then
\* save_test_file and return when valid; when invalid the failure is printed
\* and, after the last attempt, the text goes to debug_failed_tests.  Every
\* exception raised on the way is handled by HandleException, but one of the
\* debug write, which is outside the try and reaches process_endpoints.
ValidateAndSave ==
    /\ pc = "validate"
    /\ LET fixed == fix_common_issues(test_code[1]) IN
       /\ test_code' = << fixed >>
       /\ invalid_texts' = invalid_texts
                           + (IF is_valid_flag(fixed) THEN 0 ELSE 1)
       /\ \E py \in Interpreters, io_ok \in BOOLEAN :
            LET r == validate_test_case(fixed, py) IN
            /\ test_files' = IF save_test_file_called(r) /\ io_ok
                             THEN [test_files EXCEPT ![endpoint] =
                                     Append(@, [arg |-> fixed, content |-> file_content(fixed)])]
                             ELSE test_files
            /\ IF r.raised
               THEN /\ HandleException(r.exc)
                    /\ UNCHANGED <<validation_results, debug_files>>
               ELSE /\ validation_results' = << r.value >>
                    /\ IF r.value.is_valid
                       THEN /\ IF io_ok THEN EndpointEnds("saved", "saved")
                                         ELSE HandleException("OSError")
                            /\ UNCHANGED debug_files
                       ELSE IF attempt < max_retries - 1
                            THEN /\ attempt' = attempt + 1
                                 /\ pc' = "generate"
                                 /\ last_event' = "invalid"
                                 /\ UNCHANGED <<endpoint, outcome, debug_files>>
                            ELSE IF io_ok
                                 THEN /\ debug_files' = [debug_files EXCEPT ![endpoint] =
                                             Append(@, fixed)]
                                      /\ EndpointEnds("quarantined", "quarantined")
                                 ELSE /\ EndpointEnds("failed", "OSError")
                                      /\ UNCHANGED debug_files
    /\ UNCHANGED <<previous_errors, oracle_calls>>
    /\ UNCHANGED <<valVars, genVars, artVars, allVars>>

ProcStart(at) ==
    /\ pc = at
    /\ endpoint = 1
    /\ attempt = 0
    /\ test_code = << >>
    /\ validation_results = << >>
    /\ previous_errors = << >>
    /\ test_files = [e \in Endpoints |-> << >>]
    /\ debug_files = [e \in Endpoints |-> << >>]
    /\ outcome = [e \in Endpoints |-> "pending"]
    /\ oracle_calls = [e \in Endpoints |-> << >>]
    /\ invalid_texts = 0
    /\ last_event = "start"

ValidateIdle == v_pc = "idle" /\ v_text = << >> /\ v_result = << >>
RunIdle == g_pc = "idle" /\ g_units = << >> /\ g_i = 0 /\ g_written = {} /\ g_failed = 0
ArtIdle ==
    /\ a_pc = "idle" /\ a_text = << >> /\ a_facts = << >> /\ a_applied = << >>
    /\ a_orig = << >> /\ a_prev = << >> /\ a_dest = << >>
AllIdle == t_pc = "idle" /\ t_files = << >> /\ t_i = 0 /\ t_oracle = << >> /\ t_saved = << >>

Init == ProcStart("next") /\ ValidateIdle /\ RunIdle /\ ArtIdle /\ AllIdle

Next == StartEndpoint \/ GenerateTestCase \/ ValidateAndSave \/ RunEnds

Spec == Init /\ [][Next]_vars

\* process_endpoints is one sequential loop: a step that can be taken is taken.
FairSpec == Spec /\ WF_vars(Next)

----------------------------------------------------------------------------
\* validate_test_case called on an arbitrary text.

ValidateInit ==
    /\ ProcStart("idle") /\ RunIdle /\ ArtIdle /\ AllIdle
    /\ v_pc = "call"
    /\ v_text \in Texts
    /\ v_result = << >>

Validate ==
    /\ v_pc = "call"
    /\ \E py \in Interpreters : v_result' = << validate_test_case(v_text, py) >>
    /\ v_pc' = "done"
    /\ UNCHANGED <<v_text, procVars, genVars, artVars, allVars>>

ValidateNext == Validate

ValidateSpec == ValidateInit /\ [][ValidateNext]_vars

----------------------------------------------------------------------------
\* Generator.run of 4-auto-test-generator/springboot_test_generator.py.

Units == 1..NumUnits
\* what run looks at in the path of a source file
PathKinds == {"model", "service", "controller"}

\* `for p in all_files:` at a file under /model/ or /service/: skipped.
SkipUnit ==
    /\ g_pc = "run"
    /\ g_i \in Units
    /\ g_units[g_i] \in {"model", "service"}
    /\ g_i' = g_i + 1
    /\ UNCHANGED <<g_pc, g_units, g_written, g_failed, procVars, valVars, artVars, allVars>>

\* A variant of generate in which a failed Oracle call only skips the unit.
GenerateUnit_SkipOnFailure ==
    /\ g_pc = "run"
    /\ g_i \in Units
    /\ g_units[g_i] \notin {"model", "service"}
    /\ \/ /\ g_written' = g_written \cup {g_i}
          /\ g_i' = g_i + 1
          /\ UNCHANGED <<g_pc, g_failed>>
       \/ /\ g_failed' = g_i
          /\ g_i' = g_i + 1
          /\ UNCHANGED <<g_pc, g_written>>
    /\ UNCHANGED <<g_units, procVars, valVars, artVars, allVars>>

\* self.generate(p): ask returns the Oracle's code, which goes through the
\* pipeline and is written to the unit's test file; or the Oracle call raises
\* OpenAIError and ask calls sys.exit, which nothing catches: the run ends.
GenerateUnit ==
    /\ g_pc = "run"
    /\ g_i \in Units
    /\ g_units[g_i] \notin {"model", "service"}
    /\ \/ /\ g_written' = g_written \cup {g_i}
          /\ g_i' = g_i + 1
          /\ UNCHANGED <<g_pc, g_failed>>
       \/ /\ g_failed' = g_i
          /\ g_pc' = "exited"
          /\ UNCHANGED <<g_i, g_written>>
    /\ UNCHANGED <<g_units, procVars, valVars, artVars, allVars>>

\* all_files is exhausted: run returns.
RunReturns ==
    /\ g_pc = "run"
    /\ g_i \notin Units
    /\ g_pc' = "finished"
    /\ UNCHANGED <<g_units, g_i, g_written, g_failed, procVars, valVars, artVars, allVars>>

RunInit ==
    /\ ProcStart("idle") /\ ValidateIdle /\ ArtIdle /\ AllIdle
    /\ g_pc = "run"
    /\ g_units \in [Units -> PathKinds]
    /\ g_i = 1
    /\ g_written = {}
    /\ g_failed = 0

RunNext == SkipUnit \/ GenerateUnit \/ RunReturns

RunSpec == RunInit /\ [][RunNext]_vars

----------------------------------------------------------------------------
\* The artifact texts of 4-auto-test-generator/springboot_test_generator.py.
\*
\* A text is [ls, nl]: ls is text.splitlines() and nl says whether the text
\* ends in a line break, so the text is "\n".join(ls) followed by "\n" when
\* nl.  A line is a record [k, n, v, f, w, ind, pre]:
\*   k = "text"    the fixed line named n (see TextLines);
\*   k = "setter"  order1.<n>(<lit>);       n is setTotal or setAmount;
\*   k = "call"    double r = orderService.<n>(<lit>);
\*   k = "assert"  assertEquals(<lit>, result);
\* <lit> is a numeric literal of value v hundredths, written as an integer
\* (f = "int": 2000) or with a fraction as Python prints a float (f = "dec":
\* 2000.0); w says that the literal of a setter is wrapped as
\* BigDecimal.valueOf(<lit>); ind says that the line is in the form the
\* program writes it: the stub with eight spaces before it, a setter as
\* "        .setTotal(<lit>);" after an injected status call; pre is the import
\* statement that an insertion at index 0 has put in front of the line, on
\* the same line ("" when there is none).

Pkg        == "package com.example;"
ImpJavax   == "import javax.validation.Valid;"
ImpJakarta == "import jakarta.validation.Valid;"
ImpBig     == "import java.math.BigDecimal;"
ImpList    == "import java.util.List;"
ImpEnum    == "import com.example.model.OrderStatus;"
Before     == "@BeforeEach"
SetUp      == "void setUp() {"
Blank      == ""
Status     == "order1.setStatus(OrderStatus.COMPLETED);"
Stub       == "when(orderRepo.findAll()).thenReturn(List.of(order1, order2, order3));"

T(n)            == [k |-> "text", n |-> n, v |-> 0, f |-> "", w |-> FALSE, ind |-> FALSE, pre |-> ""]
Setter(n, v, f) == [k |-> "setter", n |-> n, v |-> v, f |-> f, w |-> FALSE, ind |-> FALSE, pre |-> ""]
Call(n, v, f)   == [k |-> "call", n |-> n, v |-> v, f |-> f, w |-> FALSE, ind |-> FALSE, pre |-> ""]
AssertEq(v, f)  ==
    [k |-> "assert", n |-> "assertEquals", v |-> v, f |-> f, w |-> FALSE, ind |-> FALSE,
     pre |-> ""]

\* the lines a text given to a transform is made of
ArtLines ==
    { T(Pkg), T(ImpJavax), T(ImpList), T(Before), T(SetUp), T(Blank), T(Status), T(Stub),
      Setter("setTotal", 200000, "int"), Setter("setTotal", 10000, "dec"),
      Setter("setAmount", 200000, "int"), Call("applyDiscount", 200000, "int"),
      AssertEq(10000, "dec") }

\* the text "\n".join(ls): a last empty line is a final line break
Join(ls) ==
    IF ls # << >> /\ ls[Len(ls)] = T(Blank)
    THEN IF Len(ls) = 1 THEN [ls |-> << >>, nl |-> FALSE]
         ELSE [ls |-> SubSeq(ls, 1, Len(ls) - 1), nl |-> TRUE]
    ELSE [ls |-> ls, nl |-> FALSE]

\* every text of at most n lines
ArtTextsUpTo(n) ==
    {Join(ls) : ls \in UNION {[1..k -> ArtLines] : k \in 0..n}}
        \cup {[ls |-> ls, nl |-> TRUE] : ls \in UNION {[1..k -> ArtLines] : k \in 1..n}}

\* the substring tests and patterns of the transforms, line by line
EndsSemi(ln)      == ln.k # "text" \/ ln.n \notin {Before, SetUp, Blank}
HasPackage(ln)    == ln.k = "text" /\ ln.n = Pkg
\* SET_TOTAL = \.setTotal\((\d+(?:\.\d+)?)\)
SET_TOTAL(ln)     == ln.k = "setter" /\ ln.n = "setTotal" /\ ~ln.w
\* ASSERT_EQ = assertEquals\((\d+(?:\.\d+)?),\s*result\)
ASSERT_EQ(ln)     == ln.k = "assert"
\* (?<![\w.])\d+(?:\.\d+)?(?![\w.])
NumericLiteral(ln) == ln.k \in {"setter", "call", "assert"}
\* "BigDecimal" in code, ".setStatus(" in code, needed_enum in code, ...
HasImport(ln, imp) == (ln.k = "text" /\ ln.n = imp) \/ ln.pre = imp
HasImpBig(ln)     == HasImport(ln, ImpBig)
HasBigDecimal(ln) == (ln.k = "setter" /\ ln.w) \/ HasImpBig(ln)
HasSetStatus(ln)  == ln.k = "text" /\ ln.n = Status
HasEnumName(ln)   == HasSetStatus(ln) \/ HasImport(ln, ImpEnum)
HasStub(ln)       == ln.k = "text" /\ ln.n = Stub
money_setters     == {"setTotal", "setAmount", "setPrice", "setSubtotal"}

AnyLine(code, P(_)) == \E i \in 1..Len(code.ls) : P(code.ls[i])
MapLines(ls, F(_))  == [i \in 1..Len(ls) |-> F(ls[i])]

\* idx = code.find(";", code.find("package")) + 1
\* code[:idx] + "\n" + imp + code[idx:]
InsertImport(code, imp) ==
    IF AnyLine(code, HasPackage)
    THEN LET i == CHOOSE i \in 1..Len(code.ls) :
                      /\ HasPackage(code.ls[i])
                      /\ \A j \in 1..(i - 1) : ~HasPackage(code.ls[j])
         IN  [code EXCEPT !.ls = SubSeq(code.ls, 1, i) \o <<T(imp)>>
                                     \o SubSeq(code.ls, i + 1, Len(code.ls))]
    ELSE IF code.ls # << >> /\ ~code.nl /\ EndsSemi(code.ls[Len(code.ls)])
         THEN [code EXCEPT !.ls = Append(code.ls, T(imp))]     \* the last character is ";"
         ELSE \* idx = 0: the import has a line break before it and none after it
              IF code.ls = << >>
              THEN [code EXCEPT !.ls = <<T(Blank), T(imp)>>]
              ELSE IF code.ls[1] = T(Blank)
              THEN [code EXCEPT !.ls = <<T(Blank), T(imp)>> \o Tail(code.ls)]
              ELSE [code EXCEPT !.ls = <<T(Blank), [code.ls[1] EXCEPT !.pre = imp]>>
                                          \o Tail(code.ls)]

\* f"{limit*0.9:.0f}", in hundredths
RoundedNinety(limit) ==
    LET q == (9 * limit) \div 1000
        r == (9 * limit) % 1000
    IN  100 * (IF r > 500 \/ (r = 500 /\ q % 2 = 1) THEN q + 1 ELSE q)

clamp_any_literal(code, limit) ==
    IF limit = << >> THEN code
    ELSE LET repl(ln) == IF NumericLiteral(ln) /\ ln.v > limit[1]
                         THEN [ln EXCEPT !.v = RoundedNinety(limit[1]), !.f = "int"]
                         ELSE ln
         IN  [code EXCEPT !.ls = MapLines(code.ls, repl)]

fix_validation_imports(code) ==
    LET repl(ln) == IF ln.k = "text" /\ ln.n = ImpJavax THEN [ln EXCEPT !.n = ImpJakarta]
                    ELSE ln
    IN  [code EXCEPT !.ls = MapLines(code.ls, repl)]

clamp_totals(code, limit) ==
    IF limit = << >> THEN code
    ELSE LET clamp(ln) ==
                 IF SET_TOTAL(ln)
                 THEN [ln EXCEPT !.v = IF ln.v <= limit[1] THEN ln.v
                                        ELSE (9 * limit[1]) \div 10,
                                 !.f = "dec"]
                 ELSE ln
         IN  [code EXCEPT !.ls = MapLines(code.ls, clamp)]

adapt_bigdecimal(code, src_has_bigdecimal) ==
    IF ~src_has_bigdecimal THEN code
    ELSE LET wrap(ln)  == IF SET_TOTAL(ln) THEN [ln EXCEPT !.w = TRUE] ELSE ln
             wrapped   == [code EXCEPT !.ls = MapLines(code.ls, wrap)]
         IN  IF AnyLine(wrapped, HasBigDecimal) /\ ~AnyLine(wrapped, HasImpBig)
             THEN InsertImport(wrapped, ImpBig)
             ELSE wrapped

fix_int_vs_double(code, d_methods) ==
    LET coerce(ln) ==
            IF /\ \/ ln.k = "call" /\ ln.n \in d_methods
                  \/ ln.k = "setter" /\ ln.n \in money_setters
               /\ ln.f = "int"
            THEN [ln EXCEPT !.f = "dec"]
            ELSE ln
    IN  Join(MapLines(code.ls, coerce))

add_status_calls(code, needed_enum) ==
    IF needed_enum = << >> \/ AnyLine(code, HasSetStatus) THEN code
    ELSE LET inject(ln) ==
                 IF SET_TOTAL(ln)
                 THEN << [T(Status) EXCEPT !.ind = ln.ind], [ln EXCEPT !.ind = TRUE] >>
                 ELSE << ln >>
             patched == [code EXCEPT !.ls = Flatten(MapLines(code.ls, inject))]
         IN  IF needed_enum[1].enum_import /\ ~AnyLine(patched, HasEnumName)
             THEN InsertImport(patched, ImpEnum)
             ELSE patched

RECURSIVE SumTotals(_)
SumTotals(ls) ==
    IF ls = << >> THEN 0
    ELSE (IF SET_TOTAL(Head(ls)) THEN Head(ls).v ELSE 0) + SumTotals(Tail(ls))

patch_revenue_assert(code) ==
    LET totals    == SelectSeq(code.ls, SET_TOTAL)
        \* str(sum(totals)): sum([]) is the integer 0, any other sum a float
        patch(ln) == IF ASSERT_EQ(ln)
                     THEN [ln EXCEPT !.v = SumTotals(code.ls),
                                     !.f = IF totals = << >> THEN "int" ELSE "dec"]
                     ELSE ln
    IN  [code EXCEPT !.ls = MapLines(code.ls, patch)]

stub_findall(code, repo_var) ==
    IF ~repo_var \/ AnyLine(code, HasStub) THEN code
    ELSE LET lines == code.ls
             IsMarker(ln) == ln.k = "text" /\ ln.n = Before
             stub  == [T(Stub) EXCEPT !.ind = TRUE]
             \* lines.insert(i+2, "        " + stub) at the first marker; the text
             \* with the import is assigned to code, and lines is what is returned
             inserted ==
                 IF \E i \in 1..Len(lines) : IsMarker(lines[i])
                 THEN LET i == CHOOSE i \in 1..Len(lines) :
                                   /\ IsMarker(lines[i])
                                   /\ \A j \in 1..(i - 1) : ~IsMarker(lines[j])
                          at == IF i + 1 <= Len(lines) THEN i + 1 ELSE Len(lines)
                      IN  SubSeq(lines, 1, at) \o <<stub>> \o SubSeq(lines, at + 1, Len(lines))
                 ELSE lines
         IN  Join(inserted)

----------------------------------------------------------------------------
\* The facts generate derives from the sources, and the texts it works on.

\* guard_limit: None, or the ceiling of `total > <ceiling>`, in hundredths
Ceilings == { << >>, <<60>>, <<100000>> }
\* double_methods(src)
DoubleMethodSets == { {}, {"applyDiscount"} }
\* needed_enum (with needed_const): None, or OrderStatus.COMPLETED; enum_import
\* says whether the declaring package was found
EnumFacts == { << >>, <<[enum_import |-> TRUE]>>, <<[enum_import |-> FALSE]>> }

Facts ==
    [ guard_limit : Ceilings, src_has_bigdecimal : BOOLEAN, d_methods : DoubleMethodSets,
      needed_enum : {e \in EnumFacts : e = << >> \/ e[1].enum_import}, repo_var : BOOLEAN ]

\* clean(): what ask returns has no white space at either end.  These lines
\* hold no test method named ...Throws... and no ResponseEntity, so the two
\* rewrites of generate before the pipeline leave the text as it is.
OracleLines ==
    { T(Pkg), T(ImpJavax), T(Before), T(SetUp),
      Setter("setTotal", 200000, "int"), Setter("setTotal", 10000, "dec"),
      Setter("setAmount", 200000, "int"), AssertEq(10000, "dec") }
OracleTexts ==
    {[ls |-> ls, nl |-> FALSE] : ls \in UNION {[1..k -> OracleLines] : k \in 0..MaxOracleLen}}

\* the pipeline of generate with adapt_bigdecimal after fix_int_vs_double
pipeline_CoercionFirst ==
    << "clamp_totals", "clamp_any_literal", "fix_int_vs_double", "adapt_bigdecimal",
       "add_status_calls", "patch_revenue_assert", "stub_findall", "fix_validation_imports" >>

\* the pipeline of generate, in the order of its statements
pipeline ==
    << "clamp_totals", "clamp_any_literal", "adapt_bigdecimal", "fix_int_vs_double",
       "add_status_calls", "patch_revenue_assert", "stub_findall", "fix_validation_imports" >>

\* One call f(code, arg) of a transform.  On its own (a_pc = "transform") a
\* transform is applied to a text, and once more to its result with the same
\* facts; in generate (a_pc = "pipeline") it is applied when it is the next
\* statement of the pipeline, with the fact found in the source.
Apply(f, arg, fact, out) ==
    /\ \/ /\ a_pc = "transform"
          /\ \/ a_applied = << >>
             \/ /\ Len(a_applied) = 1
                /\ a_applied[1].f = f
                /\ a_applied[1].arg = arg
       \/ /\ a_pc = "pipeline"
          /\ Len(a_applied) < Len(pipeline)
          /\ pipeline[Len(a_applied) + 1] = f
          /\ arg = fact
    /\ a_text' = out
    /\ a_applied' = Append(a_applied, [f |-> f, arg |-> arg])
    /\ a_prev' = a_text
    /\ UNCHANGED <<a_pc, a_facts, a_orig, a_dest, procVars, valVars, genVars, allVars>>

ClampTotals ==
    \E limit \in Ceilings :
        Apply("clamp_totals", limit, a_facts.guard_limit, clamp_totals(a_text, limit))
ClampAnyLiteral ==
    \E limit \in Ceilings :
        Apply("clamp_any_literal", limit, a_facts.guard_limit, clamp_any_literal(a_text, limit))
AdaptBigDecimal ==
    \E b \in BOOLEAN :
        Apply("adapt_bigdecimal", b, a_facts.src_has_bigdecimal, adapt_bigdecimal(a_text, b))
FixIntVsDouble ==
    \E d \in DoubleMethodSets :
        Apply("fix_int_vs_double", d, a_facts.d_methods, fix_int_vs_double(a_text, d))
AddStatusCalls ==
    \E e \in EnumFacts :
        Apply("add_status_calls", e, a_facts.needed_enum, add_status_calls(a_text, e))
PatchRevenueAssert ==
    Apply("patch_revenue_assert", << >>, << >>, patch_revenue_assert(a_text))
StubFindall ==
    \E r \in BOOLEAN :
        Apply("stub_findall", r, a_facts.repo_var, stub_findall(a_text, r))
FixValidationImports ==
    Apply("fix_validation_imports", << >>, << >>, fix_validation_imports(a_text))

\* dest.write_text(code): the end of generate
WriteTest ==
    /\ a_pc = "pipeline"
    /\ Len(a_applied) = Len(pipeline)
    /\ a_dest' = <<a_text>>
    /\ a_pc' = "written"
    /\ UNCHANGED <<a_text, a_facts, a_applied, a_orig, a_prev, procVars, valVars, genVars, allVars>>

\* every transform on every text
TransformInit ==
    /\ ProcStart("idle") /\ ValidateIdle /\ RunIdle /\ AllIdle
    /\ a_pc = "transform"
    /\ a_text \in ArtTextsUpTo(MaxArtLen)
    /\ a_facts = << >>
    /\ a_applied = << >>
    /\ a_orig = a_text
    /\ a_prev = a_text
    /\ a_dest = << >>

TransformNext ==
    \/ ClampTotals \/ ClampAnyLiteral \/ AdaptBigDecimal \/ FixIntVsDouble
    \/ AddStatusCalls \/ PatchRevenueAssert \/ StubFindall \/ FixValidationImports

TransformSpec == TransformInit /\ [][TransformNext]_vars

\* generate, from the return of ask on
PipelineInit ==
    /\ ProcStart("idle") /\ ValidateIdle /\ RunIdle /\ AllIdle
    /\ a_pc = "pipeline"
    /\ a_text \in OracleTexts
    /\ a_facts \in Facts
    /\ a_applied = << >>
    /\ a_orig = a_text
    /\ a_prev = a_text
    /\ a_dest = << >>

PipelineNext ==
    \/ ClampTotals \/ ClampAnyLiteral \/ AdaptBigDecimal \/ FixIntVsDouble
    \/ AddStatusCalls \/ PatchRevenueAssert \/ StubFindall \/ FixValidationImports
    \/ WriteTest

PipelineSpec == PipelineInit /\ [][PipelineNext]_vars

----------------------------------------------------------------------------
\* SpringBootTestGenerator.generate_all_tests of
\* 4-auto-test-generator/test_generator.py.

\* the keys of components, in the order of the dict
component_types == << "controllers", "services", "repositories", "models" >>
TypeRank(t) == CHOOSE r \in 1..Len(component_types) : component_types[r] = t

\* A Java file found by analyze_project_structure: the list it was put in,
\* and whether both `package ...;` and `class ...` are found in it.
SourceFiles == [component_type : Range(component_types), has_names : BOOLEAN]

\* What generate_test_methods returns: None when anything in it raised (the
\* request, the status check, the shape of the answer), else the answer's
\* content, which may be empty.
MethodsResults == {"None", "empty", "methods"}

Files == 1..NumFiles

\* `if not package_match or not class_match: continue`
SkipFile ==
    /\ t_pc = "files"
    /\ t_i \in Files
    /\ ~t_files[t_i].has_names
    /\ t_i' = t_i + 1
    /\ UNCHANGED <<t_pc, t_files, t_oracle, t_saved, procVars, valVars, genVars, artVars>>

\* A variant of the loop body that goes to the next file when
\* generate_test_methods has failed.
ProcessFile_SkipOnFailure ==
    /\ t_pc = "files"
    /\ t_i \in Files
    /\ t_files[t_i].has_names
    /\ \E test_methods \in MethodsResults, io_ok \in BOOLEAN :
         /\ t_oracle' = [t_oracle EXCEPT ![t_i] = test_methods]
         /\ t_saved' = IF test_methods = "None" THEN t_saved
                       ELSE [t_saved EXCEPT ![t_i] =
                               Append(@, [methods |-> IF test_methods = "empty"
                                                      THEN "default" ELSE "oracle",
                                          written |-> io_ok])]
    /\ t_i' = t_i + 1
    /\ UNCHANGED <<t_pc, t_files, procVars, valVars, genVars, artVars>>

\* The loop body for a file with a package and a class: the template, then
\* generate_test_methods; `if not test_methods:` puts the default test method
\* in their place; final_content is the template with the methods, and
\* save_test_file(file, final_content) is called, which returns False when
\* the write fails.
ProcessFile ==
    /\ t_pc = "files"
    /\ t_i \in Files
    /\ t_files[t_i].has_names
    /\ \E test_methods \in MethodsResults, io_ok \in BOOLEAN :
         /\ t_oracle' = [t_oracle EXCEPT ![t_i] = test_methods]
         /\ t_saved' = [t_saved EXCEPT ![t_i] =
                          Append(@, [methods |-> IF test_methods \in {"None", "empty"}
                                                 THEN "default" ELSE "oracle",
                                     written |-> io_ok])]
    /\ t_i' = t_i + 1
    /\ UNCHANGED <<t_pc, t_files, procVars, valVars, genVars, artVars>>

\* both loops are exhausted: "=== Test Generation Complete ==="
AllTestsReturn ==
    /\ t_pc = "files"
    /\ t_i \notin Files
    /\ t_pc' = "complete"
    /\ UNCHANGED <<t_files, t_i, t_oracle, t_saved, procVars, valVars, genVars, artVars>>

AllTestsInit ==
    /\ ProcStart("idle") /\ ValidateIdle /\ RunIdle /\ ArtIdle
    /\ t_pc = "files"
    /\ t_files \in [Files -> SourceFiles]
    /\ \A i, j \in Files :
           i < j => TypeRank(t_files[i].component_type) <= TypeRank(t_files[j].component_type)
    /\ t_i = 1
    /\ t_oracle = [i \in Files |-> "not called"]
    /\ t_saved = [i \in Files |-> << >>]

AllTestsNext == SkipFile \/ ProcessFile \/ AllTestsReturn

AllTestsSpec == AllTestsInit /\ [][AllTestsNext]_vars

----------------------------------------------------------------------------
\* Properties.

Terminal == {"saved", "quarantined", "failed"}

\* the required patterns with no match in a text, the forbidden ones with a match
MissingRequired(text) == {p \in 1..Len(requirements) : ~re_search(p, text)}
MatchedForbidden(text) == {p \in 1..Len(prohibitions) : re_finditer(p, text) # << >>}

\* C1: validate_test_case returns a ValidationResult (is_valid, errors,
\* problematic_lines) for every input string, the empty one included, and
\* never raises.
C1_ValidateNeverRaises ==
    v_pc = "done" =>
        /\ ~v_result[1].raised
        /\ DOMAIN v_result[1].value = {"is_valid", "errors", "problematic_lines"}

\* C2: whatever the Oracle does, generate_test_case is called at most
\* max_retries times for one endpoint, and the k-th call is made with attempt
\* index k - 1 (the index goes up by exactly one per call).
C2_BoundedRetries ==
    \A e \in Endpoints :
        /\ Len(oracle_calls[e]) <= max_retries
        /\ \A k \in 1..Len(oracle_calls[e]) : oracle_calls[e][k] = k - 1

C2_ThreeCalls ==
    \E e \in Endpoints : oracle_calls[e] = <<0, 1, 2>> /\ last_event \in OracleErrors

\* C3: save_test_file writes only in an attempt whose validate_test_case call
\* returned is_valid = true, and what it is given is that attempt's fixed
\* text: an attempt whose validation raised or reported a violation leaves
\* the test files as they were.
C3_SaveOnlyValid ==
    [][ test_files' # test_files =>
          /\ pc = "validate"
          /\ validation_results' # << >>
          /\ validation_results'[1].is_valid
          /\ test_files'[endpoint] =
                Append(test_files[endpoint],
                       [arg |-> test_code'[1], content |-> file_content(test_code'[1])])
          /\ test_code'[1] = fix_common_issues(test_code[1]) ]_vars

\* an attempt has come to validation with a text that breaks a rule, and
\* nothing was saved
C3_AttemptNotSaved ==
    /\ last_event \in {"TypeError", "KeyError"}
    /\ invalid_texts > 0
    /\ test_code # << >>
    /\ \A e \in Endpoints : test_files[e] = << >>

\* C4: when all max_retries attempts of an endpoint give a text that fails
\* validation, the endpoint ends exhausted: the fixed text of the last attempt
\* is what debug_failed_tests holds, and no test file is written.
C4_ExhaustedIsQuarantined ==
    (pc = "next" /\ endpoint > 1 /\ invalid_texts = max_retries) =>
        /\ outcome[endpoint - 1] = "quarantined"
        /\ debug_files[endpoint - 1] = << test_code[1] >>
        /\ test_files[endpoint - 1] = << >>

C6_EveryEndpointProcessed ==
    /\ [](\A e \in Endpoints : outcome[e] \in Terminal =>
              \A d \in 1..e : outcome[d] \in Terminal)
    /\ <>(pc = "done" /\ \A e \in Endpoints : outcome[e] \in Terminal)

\* the first endpoint failed after its three attempts and the last one was
\* processed all the same (the Oracle raising on each of its attempts)
C6_LaterEndpointAfterFailure ==
    /\ pc = "done"
    /\ outcome[1] = "failed"
    /\ oracle_calls[1] = <<0, 1, 2>>
    /\ Len(test_code) = 0
    /\ outcome[NumEndpoints] \in Terminal
    /\ oracle_calls[NumEndpoints] # << >>

C8_ValidIffRulesMet ==
    v_pc = "done" =>
        /\ ~v_result[1].raised
        /\ v_result[1].value.is_valid =
              (MissingRequired(v_text) = {} /\ MatchedForbidden(v_text) = {})

\* C9: in every result of validate_test_case errors and problematic_lines
\* hold no entry twice, in first-occurrence order, and problematic_lines
\* holds at most 3 entries.
C9_DeduplicatedAndCapped ==
    v_pc = "done" =>
        /\ ~v_result[1].raised
        /\ v_result[1].value.errors =
              DictFromKeys(check_requirements(v_text, 1) \o prohibited_errors(v_text, 1))
        /\ NoRepeats(v_result[1].value.errors)
        /\ NoRepeats(v_result[1].value.problematic_lines)
        /\ Len(v_result[1].value.problematic_lines) <= SnippetCap

\* C10: for a text with two distinct multi-argument Order construction calls,
\* validate_test_case reports the message of that forbidden construct once,
\* and problematic_lines holds both call texts.
C10_TwoConstructorCalls ==
    (v_pc = "done" /\ Range(v_text) = {L_ArgOrder1, L_ArgOrder2}) =>
        /\ ~v_result[1].raised
        /\ Cardinality({i \in 1..Len(v_result[1].value.errors) :
               v_result[1].value.errors[i] = <<"Prohibited", prohibitions[1]>>}) = 1
        /\ {"new Order(1L, 100.0)", "new Order(2L, 50.0)"}
               \subseteq Range(v_result[1].value.problematic_lines)

----------------------------------------------------------------------------
\* Properties of the transforms and of the pipeline of generate.

\* a transform applied on its own: its name and fact, once or twice
AppliedOnce(f)  == a_pc = "transform" /\ Len(a_applied) = 1 /\ a_applied[1].f = f
AppliedTwice(f) == a_pc = "transform" /\ Len(a_applied) = 2 /\ a_applied[1].f = f
IsSetter(ln)    == ln.k = "setter"
IsMarker(ln)    == ln.k = "text" /\ ln.n = Before
HasImpEnum(ln)  == HasImport(ln, ImpEnum)
HasImpList(ln)  == HasImport(ln, ImpList)
CountLines(code, P(_)) == Len(SelectSeq(code.ls, P))

\* C11: every transform f, with its facts held fixed, satisfies
\* f(f(x)) = f(x) for every input text x.
C11_TransformsIdempotent ==
    (a_pc = "transform" /\ Len(a_applied) = 2) => a_text = a_prev

\* C12: with a ceiling C, every money setter call whose literal exceeds C in
\* the code the Oracle returned carries a literal of at most C in the text
\* that generate writes (the i-th setter call of the one is the i-th of the
\* other: no transform adds, drops or reorders setter calls).
C12_SettersClampedToCeiling ==
    (a_pc = "written" /\ a_facts.guard_limit # << >>) =>
        LET before == SelectSeq(a_orig.ls, IsSetter)
            after  == SelectSeq(a_dest[1].ls, IsSetter)
        IN  /\ Len(after) = Len(before)
            /\ \A i \in 1..Len(before) :
                   before[i].v > a_facts.guard_limit[1]
                       => after[i].v <= a_facts.guard_limit[1]

\* C13: with an enum usage fact whose declaring package is known, a text with
\* no status-setting call (and a setTotal call to put one before) has, after
\* add_status_calls, exactly one setStatus call and exactly one import line
\* of the enum, applied once or twice.
C13_OneStatusCallOneImport ==
    /\ a_pc = "transform"
    /\ a_applied # << >>
    /\ a_applied[1].f = "add_status_calls"
    /\ a_applied[1].arg # << >>
    /\ a_applied[1].arg[1].enum_import
    /\ ~AnyLine(a_orig, HasSetStatus)
    /\ AnyLine(a_orig, SET_TOTAL)
    => /\ CountLines(a_text, HasSetStatus) = 1
       /\ CountLines(a_text, HasImpEnum) = 1

\* C14: the first Oracle call of an endpoint has no feedback; every later call
\* that follows a validated attempt has exactly the violation messages of
\* that attempt's text as feedback.
C14_FeedbackIsPreviousViolations ==
    [][ pc = "generate" =>
          /\ attempt = 0 => previous_errors' = << >>
          /\ (attempt > 0 /\ last_event \in {"TypeError", "KeyError", "invalid"})
                => previous_errors' = << DictFromKeys(collected_errors(test_code[1])) >>
      ]_vars

AppliedNames == [i \in 1..Len(a_applied) |-> a_applied[i].f]
IsPrefix(s, t) == Len(s) <= Len(t) /\ \A i \in 1..Len(s) : s[i] = t[i]

\* C17 as stated: generate applies guard clamping, numeric-type coercion,
\* monetary-type adaptation, enum injection, aggregate-assertion repair, stub
\* injection and namespace migration in this order (adapt_bigdecimal after
\* fix_int_vs_double).
C17_CoercionBeforeAdaptation ==
    a_pc \in {"pipeline", "written"} =>
        IsPrefix(AppliedNames,
                 << "clamp_totals", "clamp_any_literal", "fix_int_vs_double",
                    "adapt_bigdecimal", "add_status_calls", "patch_revenue_assert",
                    "stub_findall", "fix_validation_imports" >>)

\* C17: generate applies guard clamping (clamp_totals, clamp_any_literal),
\* monetary-type adaptation (adapt_bigdecimal), numeric-type coercion
\* (fix_int_vs_double), enum injection, aggregate-assertion repair, stub
\* injection and namespace migration in this order, and writes the text only
\* after all of them: adapt_bigdecimal runs after clamping and before
\* fix_int_vs_double.
C17_AdaptationBeforeCoercion ==
    LET order == << "clamp_totals", "clamp_any_literal", "adapt_bigdecimal",
                    "fix_int_vs_double", "add_status_calls", "patch_revenue_assert",
                    "stub_findall", "fix_validation_imports" >>
    IN  /\ a_pc = "pipeline" => IsPrefix(AppliedNames, order)
        /\ a_pc = "written" => AppliedNames = order

\* an integer setTotal literal has been wrapped and then given its fraction
C17_WrappedThenCoerced ==
    /\ a_pc = "written"
    /\ a_facts.guard_limit = << >>
    /\ \E i \in 1..Len(a_applied) :
          /\ a_applied[i].f = "fix_int_vs_double"
          /\ i > 1
          /\ a_applied[i - 1].f = "adapt_bigdecimal"
    /\ \E i \in 1..Len(a_orig.ls) :
          /\ a_orig.ls[i] = Setter("setTotal", 200000, "int")
          /\ [Setter("setTotal", 200000, "dec") EXCEPT !.w = TRUE] \in Range(a_dest[1].ls)

\* C18: with a collaborator field, a text that has a @BeforeEach marker and
\* no findAll stub has, after stub_findall (applied once or twice), exactly
\* one stub, placed after the marker, and exactly one line
\* "import java.util.List;".
C18_OneStubOneListImport ==
    /\ a_pc = "transform"
    /\ a_applied # << >>
    /\ a_applied[1].f = "stub_findall"
    /\ a_applied[1].arg
    /\ AnyLine(a_orig, IsMarker)
    /\ ~AnyLine(a_orig, HasStub)
    => /\ CountLines(a_text, HasStub) = 1
       /\ \E i, j \in 1..Len(a_text.ls) :
              i < j /\ IsMarker(a_text.ls[i]) /\ HasStub(a_text.ls[j])
       /\ CountLines(a_text, HasImpList) = 1

\* the triggering fact or pattern of transform f is absent from the text
NoTrigger(f, arg, code) ==
    CASE f \in {"clamp_totals", "clamp_any_literal"} -> arg = << >>
      [] f = "adapt_bigdecimal"       -> ~arg
      [] f = "fix_int_vs_double"      ->
             \A i \in 1..Len(code.ls) :
                 /\ ~(code.ls[i].k = "call" /\ code.ls[i].n \in arg)
                 /\ ~(code.ls[i].k = "setter" /\ code.ls[i].n \in money_setters)
      [] f = "add_status_calls"       -> arg = << >>
      [] f = "patch_revenue_assert"   -> ~AnyLine(code, SET_TOTAL)
      [] f = "stub_findall"           -> ~arg \/ ~AnyLine(code, IsMarker)
      [] f = "fix_validation_imports" -> ~AnyLine(code, LAMBDA ln : ln.k = "text" /\ ln.n = ImpJavax)

\* C19: every transform returns its input text unchanged when its
\* triggering fact or pattern is absent.
C19_NoTriggerNoChange ==
    (a_pc = "transform" /\ Len(a_applied) = 1
        /\ NoTrigger(a_applied[1].f, a_applied[1].arg, a_orig))
    => a_text = a_orig

\* C20: in the text that generate writes, the expected literal of every
\* assertEquals(<literal>, result) is the sum of the setTotal literals of
\* that text, wrapped in BigDecimal.valueOf or not.
C20_AssertIsSumOfTotals ==
    a_pc = "written" =>
        LET IsTotal(ln) == ln.k = "setter" /\ ln.n = "setTotal"
            totals == SelectSeq(a_dest[1].ls, IsTotal)
            RECURSIVE Sum(_)
            Sum(s) == IF s = << >> THEN 0 ELSE Head(s).v + Sum(Tail(s))
        IN  \A i \in 1..Len(a_dest[1].ls) :
                ASSERT_EQ(a_dest[1].ls[i]) => a_dest[1].ls[i].v = Sum(totals)

\* C21: an attempt whose Oracle output is the example test class of
\* build_prompt is validated with is_valid = true and saved on that attempt
\* (or the write of the file fails): the ACCEPTED state is reachable.
C21_ExampleClassAccepted ==
    [][ (pc = "validate" /\ test_code = << ExampleTest >>) =>
            /\ validation_results' # << >>
            /\ validation_results'[1].is_valid
            /\ last_event' \in {"saved", "OSError"}
      ]_vars

\* C21, the rule sets: a text in which required pattern 4 (the no-arg
\* constructor) has a match has a match of forbidden pattern 2 (Order
\* constructor, any form), so no text meets both rule sets, fixed or not, and
\* no endpoint is ever saved.
C21_RuleSetsExcludeEachOther ==
    /\ v_pc = "call" =>
          /\ 4 \notin MissingRequired(v_text) => 2 \in MatchedForbidden(v_text)
          /\ ~is_valid_flag(v_text)
          /\ ~is_valid_flag(fix_common_issues(v_text))
    /\ \A e \in DOMAIN outcome : outcome[e] # "saved"

====
